---- MODULE Spec2Model ----
(***************************************************************************)
(* A model of the Supabase REST client (supabase_utils.py) and of its      *)
(* three command-line front-ends.                                          *)
(*                                                                         *)
(* Python strings are sequences of chunks (a chunk is a character or a     *)
(* run of characters that the operations of the program never cut), and a  *)
(* Python value that may be None, or an attribute that may never have been *)
(* assigned, is a tagged record [t, v].                                    *)
(***************************************************************************)
EXTENDS Integers, Sequences, FiniteSets, TLC

VARIABLES
    server,   \* what the remote API answers, per endpoint
    front,    \* which program runs: "none", "library", "utils_main", "claude", "list_example"
    pc,       \* "start", "ready" (a client exists), "done", "crashed" (uncaught exception)
    ctor,     \* the arguments and the outcome of SupabaseClient(...)
    client,   \* the attributes of the constructed client
    calls,    \* the client operations called so far, with the requests each one sent
    out       \* what the front-end printed or returned, and how the process ended

vars == <<server, front, pc, ctor, client, calls, out>>

-----------------------------------------------------------------------------
\* Bounds of the model.

\* longest mcpServers.supabase.args list
MaxArgs == 2
\* longest response text of the API root, in chunks
MaxText == 6
\* longest Content-Range header, in characters
MaxHeader == 6

-----------------------------------------------------------------------------
\* Python values.

None == [t |-> "None", v |-> <<>>]
Unset == [t |-> "unset", v |-> <<>>]
Str(s) == [t |-> "str", v |-> s]

\* bool(x) of a str or None
Truthy(x) == x.t = "str" /\ x.v # <<>>

\* str(x) inside an f-string
Format(x) == IF x.t = "str" THEN x.v ELSE <<"None">>

SeqsUpTo(S, n) == UNION {[1..k -> S] : k \in 0..n}

\* s.split(c)[0] and the rest of s after the first c
Before(s, c) ==
    IF \E i \in 1..Len(s) : s[i] = c
    THEN SubSeq(s, 1, (CHOOSE i \in 1..Len(s) : s[i] = c /\ \A j \in 1..(i-1) : s[j] # c) - 1)
    ELSE s
After(s, c) ==
    LET i == CHOOSE i \in 1..Len(s) : s[i] = c /\ \A j \in 1..(i-1) : s[j] # c
    IN SubSeq(s, i + 1, Len(s))
\* s.split(c)[1], for s that holds c
Split1(s, c) == Before(After(s, c), c)

-----------------------------------------------------------------------------
\* Config files, as json.load sees them.

TypedUrl == <<"https:", "/", "/", "proj.supabase.co">>

UrlValues == {None, Str(<<>>), Str(TypedUrl), Str(TypedUrl \o <<"/">>)}
KeyValues(k) == {None, Str(<<>>), Str(<<k>>)}

ArgPool == {
    <<"--project-ref", "=", "ref">>,
    <<"--project-ref", "=">>,
    <<"--project-ref">>,
    <<"ref">>,
    <<"-y">> }

ConfigFile(kind, args, token, url, anon, service) ==
    [kind |-> kind, args |-> args, token |-> token,
     url |-> url, anon |-> anon, service |-> service]

\* the file does not exist, or is not JSON
OddFiles == {ConfigFile(k, <<>>, Unset, None, None, None) : k \in {"missing", "invalid"}}
\* {"mcpServers": {"supabase": {"args": [...], "env": {"SUPABASE_ACCESS_TOKEN": ...}}}};
\* token Unset: no env, or no SUPABASE_ACCESS_TOKEN in it
McpFiles ==
    {ConfigFile("mcp", a, t, None, None, None) :
        a \in SeqsUpTo(ArgPool, MaxArgs), t \in {Unset, Str(<<>>), Str(<<"token">>)}}
\* {"SUPABASE_URL": ..., "SUPABASE_ANON_KEY": ..., "SUPABASE_SERVICE_ROLE_KEY": ...};
\* None: the field is absent (or null)
FlatFiles ==
    {ConfigFile("flat", <<>>, Unset, u, a, s) :
        u \in UrlValues, a \in KeyValues("anon"), s \in KeyValues("service")}
ConfigFiles == OddFiles \cup McpFiles \cup FlatFiles

\* SupabaseClient(url, anon_key, service_role_key) or SupabaseClient(config_file=...)
Direct(u, a, s) == [source |-> "direct", file |-> ConfigFile("none", <<>>, Unset, u, a, s)]
FromFile(f) == [source |-> "config", file |-> f]
DirectArgs ==
    {Direct(u, a, s) : u \in UrlValues, a \in KeyValues("anon"), s \in KeyValues("service")}
FileArgs == {FromFile(f) : f \in ConfigFiles}

-----------------------------------------------------------------------------
\* SupabaseClient._load_config

\* '--project-ref=' in arg
HasProjectRefEq(arg) ==
    \E i \in 1..(Len(arg) - 1) : arg[i] = "--project-ref" /\ arg[i+1] = "="

\* args.index(arg), counted from 1
Index(args, arg) == CHOOSE i \in 1..Len(args) : args[i] = arg /\ \A j \in 1..(i-1) : args[j] # arg

\* the for loop over args: the value of project_ref after it
RECURSIVE ProjectRefLoop(_, _, _)
ProjectRefLoop(args, i, project_ref) ==
    IF i > Len(args) THEN project_ref
    ELSE LET arg == args[i] IN
         IF HasProjectRefEq(arg)
         THEN ProjectRefLoop(args, i + 1, Str(Split1(arg, "=")))
         ELSE IF arg = <<"--project-ref">> /\ Len(args) > Index(args, arg)
         THEN ProjectRefLoop(args, i + 1, Str(args[Index(args, arg) + 1]))
         ELSE ProjectRefLoop(args, i + 1, project_ref)

Attrs(u, a, s) == [url |-> u, anon_key |-> a, service_role_key |-> s]

\* the attributes _load_config assigns (Unset: never assigned), or the exception it raises
LoadConfig(f) ==
    CASE f.kind \in {"missing", "invalid"} ->
            [exc |-> "ValueError", attrs |-> Attrs(Unset, Unset, Unset)]
      [] f.kind = "mcp" ->
            LET project_ref == ProjectRefLoop(f.args, 1, None)
                url == IF Truthy(project_ref)
                       THEN Str(<<"https:", "/", "/">> \o project_ref.v \o <<".supabase.co">>)
                       ELSE Unset
            IN [exc |-> "none",
                attrs |-> IF f.token # Unset
                          THEN Attrs(url, None, f.token)
                          ELSE Attrs(url, Unset, Unset)]
      [] OTHER ->
            [exc |-> "none", attrs |-> Attrs(f.url, f.anon, f.service)]

-----------------------------------------------------------------------------
\* SupabaseClient.__init__

EndsWithSlash(s) == Len(s) > 0 /\ s[Len(s)] = "/"

\* CredentialCheck with the test of the keys left out (the variant C4 must notice)
CredentialCheckUrlOnly(a) ==
    CASE a.url = Unset -> "AttributeError"
      [] ~Truthy(a.url) -> "ValueError"
      [] OTHER -> "none"

\* line 25, reading the attributes left to right with Python's short circuit
CredentialCheck(a) ==
    CASE a.url = Unset -> "AttributeError"
      [] ~Truthy(a.url) -> "ValueError"
      [] a.anon_key = Unset -> "AttributeError"
      [] Truthy(a.anon_key) -> "none"
      [] a.service_role_key = Unset -> "AttributeError"
      [] Truthy(a.service_role_key) -> "none"
      [] OTHER -> "ValueError"

NoAttrs == Attrs(Unset, Unset, Unset)

\* lines 18-23: the attributes after the if statement, or what _load_config raised
Assigned(args) ==
    IF args.source = "config"
    THEN LoadConfig(args.file)
    ELSE [exc |-> "none", attrs |-> Attrs(args.file.url, args.file.anon, args.file.service)]

\* lines 28-30
StripSlash(a) ==
    IF EndsWithSlash(a.url.v)
    THEN [a EXCEPT !.url = Str(SubSeq(a.url.v, 1, Len(a.url.v) - 1))]
    ELSE a

\* lines 25-30, given what lines 18-23 did
Checked(args, assigned, exc) ==
    [args |-> args, exc |-> exc,
     attrs |-> IF exc # "none" THEN NoAttrs ELSE StripSlash(assigned.attrs)]

Validate(args, assigned) ==
    Checked(args, assigned,
            IF assigned.exc # "none" THEN assigned.exc ELSE CredentialCheck(assigned.attrs))

Construct(args) == Validate(args, Assigned(args))

\* before SupabaseClient(...) is called
NotConstructed ==
    [args |-> [source |-> "none", file |-> ConfigFile("none", <<>>, Unset, None, None, None)],
     exc |-> "none", attrs |-> NoAttrs]

-----------------------------------------------------------------------------
\* SupabaseClient._get_auth_headers

Headers(key) == [apikey |-> key, Authorization |-> <<"Bearer ">> \o Format(key)]

\* AuthHeaders with the flag ignored (the variant C9 must notice)
AuthHeadersFlagIgnored(c, use_service_role) ==
    Headers(IF Truthy(c.service_role_key) THEN c.service_role_key ELSE c.anon_key)

AuthHeaders(c, use_service_role) ==
    LET key == IF use_service_role /\ Truthy(c.service_role_key)
               THEN c.service_role_key
               ELSE c.anon_key
    IN Headers(key)

-----------------------------------------------------------------------------
\* The remote API and requests.get.

\* f"{self.url}/rest/v1/" and f"{self.url}/rest/v1/{table_name}"
RootUrl(c) == c.url.v \o <<"/rest/v1/">>
TableUrl(c, table_name) == c.url.v \o <<"/rest/v1/">> \o table_name

NoParams == [k \in {} |-> 0]
Request(url, headers, params) == [url |-> url, headers |-> headers, params |-> params]

\* the API answers the root endpoint with root_status and text, and a table
\* endpoint with table_status, a Content-Range header (Unset: none) and a body
Server(rs, text, ts, range, body) ==
    [root_status |-> rs, text |-> text, table_status |-> ts, range |-> range, body |-> body]

\* what an operation did: the requests it sent, and how it ended
NoMessage == [prefix |-> "", status |-> 0, text |-> <<>>]
Return(sent, value) ==
    [sent |-> sent, kind |-> "return", exc |-> "none", message |-> NoMessage, value |-> value]
\* raise Exception(f"{prefix}: {status} {text}")
RaiseException(sent, prefix, status, text) ==
    [sent |-> sent, kind |-> "raise", exc |-> "Exception",
     message |-> [prefix |-> prefix, status |-> status, text |-> text], value |-> <<>>]
RaiseDecodeError(sent) ==
    [sent |-> sent, kind |-> "raise", exc |-> "JSONDecodeError", message |-> NoMessage,
     value |-> <<>>]

-----------------------------------------------------------------------------
\* SupabaseClient.list_tables

\* The response text is a sequence of chunks: TagOpen is "tags":[" and TagClose
\* is "] ; the other chunks are pieces of names and hold no double quote. The
\* literal "tags":[" occurs in a text exactly where a TagOpen chunk stands.
TagOpen == "\"tags\":[\""
TagClose == "\"]"
NameChunks == {"(rpc)", "Introspection", "a", "b"}
TextChunks == {TagOpen, TagClose} \cup NameChunks

\* the first position >= i of text that is not a piece of a name
RECURSIVE NameEnd(_, _)
NameEnd(text, i) ==
    IF i <= Len(text) /\ text[i] \in NameChunks THEN NameEnd(text, i + 1) ELSE i

\* re.findall(r'"tags":\["([^"]+)"\]', text) scanning from position i: at a
\* TagOpen the class [^"]+ takes every piece up to the next double quote, which
\* must open a TagClose; a match resumes the scan after it, a failure one on
RECURSIVE FindAll(_, _)
FindAll(text, i) ==
    IF i > Len(text) THEN <<>>
    ELSE IF text[i] # TagOpen THEN FindAll(text, i + 1)
    ELSE LET j == NameEnd(text, i + 1) IN
         IF j > i + 1 /\ j <= Len(text) /\ text[j] = TagClose
         THEN <<SubSeq(text, i + 1, j - 1)>> \o FindAll(text, j + 1)
         ELSE FindAll(text, i + 1)

\* match.startswith('(rpc)') and match != 'Introspection'
StartsWithRpc(match) == match[1] = "(rpc)"
\* IsTable with Introspection let through (the variant C8 must notice)
IsTableRpcOnly(match) == ~StartsWithRpc(match)
IsTable(match) == ~StartsWithRpc(match) /\ match # <<"Introspection">>

\* the set the for loop builds
TableSet(matches) == {matches[k] : k \in {n \in 1..Len(matches) : IsTable(matches[n])}}

\* Python orders strings by code point; the chunks start with different
\* characters, so two names compare at their first different chunk
CodePoint(chunk) ==
    CASE chunk = "(rpc)" -> 40
      [] chunk = "Introspection" -> 73
      [] chunk = "a" -> 97
      [] OTHER -> 98
RECURSIVE StrLess(_, _)
StrLess(s, t) ==
    IF s = <<>> THEN t # <<>>
    ELSE IF t = <<>> THEN FALSE
    ELSE IF s[1] = t[1] THEN StrLess(Tail(s), Tail(t))
    ELSE CodePoint(s[1]) < CodePoint(t[1])

\* sorted(list(tables))
RECURSIVE Sorted(_)
Sorted(S) ==
    IF S = {} THEN <<>>
    ELSE LET m == CHOOSE x \in S : \A y \in S : x = y \/ StrLess(x, y)
         IN <<m>> \o Sorted(S \ {m})

ListTablesOp(c, srv, use_service_role) ==
    LET sent == <<Request(RootUrl(c), AuthHeaders(c, use_service_role), NoParams)>>
    IN IF srv.root_status # 200
       THEN RaiseException(sent, "Failed to list tables", srv.root_status, srv.text)
       ELSE Return(sent, Sorted(TableSet(FindAll(srv.text, 1))))

-----------------------------------------------------------------------------
\* SupabaseClient.get_table_schema

Digits == {"0", "2", "4"}
HeaderChars == Digits \cup {"-", "/", "*"}

DigitValue(d) == CASE d = "0" -> 0 [] d = "2" -> 2 [] OTHER -> 4

\* int(s) raises ValueError unless s is an optional sign and then digits
IsInt(s) ==
    LET digits == IF s # <<>> /\ s[1] = "-" THEN Tail(s) ELSE s
    IN digits # <<>> /\ \A i \in 1..Len(digits) : digits[i] \in Digits
RECURSIVE Decimal(_)
Decimal(digits) ==
    IF digits = <<>> THEN 0
    ELSE 10 * Decimal(SubSeq(digits, 1, Len(digits) - 1)) + DigitValue(digits[Len(digits)])
IntOf(s) == IF s[1] = "-" THEN 0 - Decimal(Tail(s)) ELSE Decimal(s)

\* lines 120-128: total_count from the Content-Range header
TotalCount(range) ==
    LET range_header == IF range = Unset THEN <<>> ELSE range.v IN
    IF \E i \in 1..Len(range_header) : range_header[i] = "/"
    THEN LET total_part == Split1(range_header, "/") IN
         IF total_part # <<"*">> /\ IsInt(total_part) THEN IntOf(total_part) ELSE 0
    ELSE 0

Schema(table_name, total_count) ==
    [name |-> table_name, total_rows |-> total_count,
     columns |-> <<[name |-> "id", type |-> "uuid", required |-> TRUE]>>]

GetTableSchemaOp(c, srv, table_name, use_service_role) ==
    LET headers == AuthHeaders(c, use_service_role)
        first == Request(TableUrl(c, table_name), headers,
                         [k \in {"select", "limit"} |-> IF k = "select" THEN "*" ELSE 0])
        columns == Request(RootUrl(c), headers,
                           [k \in {"select", "table"} |->
                               IF k = "select"
                               THEN "column_name,data_type,is_nullable,column_default"
                               ELSE table_name])
    IN IF srv.table_status # 200
       THEN RaiseException(<<first>>, "Failed to get schema for table",
                           srv.table_status, srv.body)
       ELSE Return(<<first, columns>>, Schema(table_name, TotalCount(srv.range)))

-----------------------------------------------------------------------------
\* SupabaseClient.query_table

\* filters: None, or a dict
NoFilters == [t |-> "None", d |-> NoParams]
Dict(d) == [t |-> "dict", d |-> d]

\* QueryParams with select and limit assigned after the filters (the variant C6
\* must notice)
QueryParamsFiltersFirst(select, filters, limit) ==
    LET own == [k \in {"select", "limit"} |-> IF k = "select" THEN select ELSE limit]
    IN IF filters.t = "dict"
       THEN [k \in DOMAIN own \cup DOMAIN filters.d |->
                IF k \in DOMAIN own THEN own[k] ELSE filters.d[k]]
       ELSE own

\* lines 171-179: select and limit first, then every filter assigned over them
QueryParams(select, filters, limit) ==
    LET params == [k \in {"select", "limit"} |-> IF k = "select" THEN select ELSE limit]
    IN IF filters.t = "dict" /\ DOMAIN filters.d # {}
       THEN [k \in DOMAIN params \cup DOMAIN filters.d |->
                IF k \in DOMAIN filters.d THEN filters.d[k] ELSE params[k]]
       ELSE params

\* response.json(): the body is a sequence of chunks "[", "]", "," and rows;
\* a JSON array of rows decodes to the sequence of its rows
Rows == {"row1", "row2"}
IsJsonArray(body) ==
    /\ Len(body) >= 2
    /\ body[1] = "["
    /\ body[Len(body)] = "]"
    /\ \/ Len(body) = 2
       \/ /\ Len(body) % 2 = 1
          /\ \A i \in 2..(Len(body) - 1) :
                IF i % 2 = 0 THEN body[i] \in Rows ELSE body[i] = ","
JsonArray(body) == [n \in 1..((Len(body) - 1) \div 2) |-> body[2 * n]]

QueryTableOp(c, srv, table_name, select, filters, limit, use_service_role) ==
    LET sent == <<Request(TableUrl(c, table_name), AuthHeaders(c, use_service_role),
                          QueryParams(select, filters, limit))>>
    IN IF srv.table_status # 200
       THEN RaiseException(sent, "Failed to query table", srv.table_status, srv.body)
       ELSE IF IsJsonArray(srv.body)
       THEN Return(sent, JsonArray(srv.body))
       ELSE RaiseDecodeError(sent)

-----------------------------------------------------------------------------
\* Inputs.

\* what the API may answer
RootStatuses == {200, 404}
TableStatuses == {200, 500}
SampleTexts == {
    <<>>,
    <<TagOpen, "a", TagClose, ",", TagOpen, "(rpc)", "a", TagClose>> }
SampleRanges == {Unset, Str(<<"0", "-", "0", "/", "4", "2">>)}
SampleBodies == {<<"[", "row1", ",", "row2", "]">>, <<"[", "row1">>}
Servers ==
    {Server(rs, text, ts, range, body) :
        rs \in RootStatuses, text \in SampleTexts, ts \in TableStatuses,
        range \in SampleRanges, body \in SampleBodies}

\* the arguments of the operations
TableNames == {<<"a">>}
Selects == {"*", "id"}
Limits == {100, 5}
FilterDicts == {
    NoFilters,
    Dict(NoParams),
    Dict([k \in {"id"} |-> "eq.1"]),
    Dict([k \in {"limit"} |-> 9]),
    Dict([k \in {"id", "select"} |-> IF k = "id" THEN "eq.1" ELSE "name"]) }

OpArgs(table_name, select, filters, limit, use_service_role) ==
    [table_name |-> table_name, select |-> select, filters |-> filters, limit |-> limit,
     use_service_role |-> use_service_role]
Call(op, args, result) == [op |-> op, args |-> args, result |-> result]

\* the three operations as a caller sees them, with the defaults of their signatures
ListTables(c, srv, use_service_role) ==
    Call("list_tables", OpArgs(<<>>, "*", NoFilters, 100, use_service_role),
         ListTablesOp(c, srv, use_service_role))
GetTableSchema(c, srv, table_name, use_service_role) ==
    Call("get_table_schema", OpArgs(table_name, "*", NoFilters, 100, use_service_role),
         GetTableSchemaOp(c, srv, table_name, use_service_role))
QueryTable(c, srv, table_name, select, filters, limit, use_service_role) ==
    Call("query_table", OpArgs(table_name, select, filters, limit, use_service_role),
         QueryTableOp(c, srv, table_name, select, filters, limit, use_service_role))

\* what a front-end printed, its exit status, and the exception that left it
Item(kind, payload) == [kind |-> kind, payload |-> payload]
Out(printed, exit, uncaught) == [printed |-> printed, exit |-> exit, uncaught |-> uncaught]
NoOut == Out(<<>>, 0, "none")

-----------------------------------------------------------------------------
\* A program that uses the class directly.

LibConstruct ==
    /\ pc = "start"
    /\ \E a \in DirectArgs \cup FileArgs :
          \E c \in {Construct(a)} :
          /\ ctor' = c
          /\ client' = c.attrs
          /\ pc' = IF c.exc = "none" THEN "ready" ELSE "done"
    /\ front' = "library"
    /\ UNCHANGED <<server, calls, out>>

LibListTables ==
    /\ pc = "ready"
    /\ front = "library"
    /\ \E usr \in BOOLEAN :
          calls' = Append(calls, ListTables(client, server, usr))
    /\ pc' = "done"
    /\ UNCHANGED <<server, front, ctor, client, out>>

LibGetTableSchema ==
    /\ pc = "ready"
    /\ front = "library"
    /\ \E t \in TableNames, usr \in BOOLEAN :
          calls' = Append(calls, GetTableSchema(client, server, t, usr))
    /\ pc' = "done"
    /\ UNCHANGED <<server, front, ctor, client, out>>

LibQueryTable ==
    /\ pc = "ready"
    /\ front = "library"
    /\ \E t \in TableNames, sel \in Selects, f \in FilterDicts, lim \in Limits,
          usr \in BOOLEAN :
          calls' = Append(calls, QueryTable(client, server, t, sel, f, lim, usr))
    /\ pc' = "done"
    /\ UNCHANGED <<server, front, ctor, client, out>>

-----------------------------------------------------------------------------
\* supabase_utils.py run as a script (lines 189-237).

Actions == {"list-tables", "table-schema", "query"}

\* print(json.dumps(result)) after a call, or print(f"Error: {e}") in the handler
PrintResult(call) ==
    IF call.result.kind = "return"
    THEN Item("json", call.result.value)
    ELSE Item("error_text", call.result.exc)

Run(c, made, printed, exit, uncaught) ==
    [ctor |-> c, calls |-> made, out |-> Out(printed, exit, uncaught)]

\* lines 217-234, with the client c
UtilsAction(c, action, table, select, limit) ==
    CASE action = "list-tables" -> ListTables(c.attrs, server, TRUE)
      [] action = "table-schema" -> GetTableSchema(c.attrs, server, table.v, TRUE)
      [] OTHER -> QueryTable(c.attrs, server, table.v, select, NoFilters, limit, FALSE)

UtilsPrint(c, call) == Run(c, <<call>>, <<PrintResult(call)>>, 0, "none")

\* lines 206-237: the try statement
UtilsTry(c, action, table, select, limit) ==
    IF c.exc # "none"
    THEN Run(c, <<>>, <<Item("error_text", c.exc)>>, 0, "none")
    ELSE IF action # "list-tables" /\ ~Truthy(table)
    THEN Run(c, <<>>, <<Item("text", "--table is required")>>, 1, "none")
    ELSE UtilsPrint(c, UtilsAction(c, action, table, select, limit))

UtilsMain ==
    /\ pc = "start"
    /\ \E a \in DirectArgs \cup FileArgs, action \in Actions,
          table \in {None, Str(<<"a">>)}, select \in Selects, limit \in Limits :
          \E run \in {UtilsTry(Construct(a), action, table, select, limit)} :
          /\ ctor' = run.ctor
          /\ client' = run.ctor.attrs
          /\ calls' = run.calls
          /\ out' = run.out
    /\ front' = "utils_main"
    /\ pc' = "done"
    /\ UNCHANGED server

-----------------------------------------------------------------------------
\* claude_integration_example.py

Commands == {"list_tables", "table_schema", "query", "describe"}

\* json.dumps({"status": "success", ...}) or json.dumps({"status": "error", "message": ...})
Envelope(call) ==
    IF call.result.kind = "return"
    THEN Item("success_envelope", call.result.value)
    ELSE Item("error_envelope", call.result.exc)

\* lines 21-41, with the client c
ClaudeCommand(c, command, table_name) ==
    CASE command = "list_tables" -> ListTables(c.attrs, server, TRUE)
      [] command = "table_schema" -> GetTableSchema(c.attrs, server, table_name.v, TRUE)
      [] OTHER -> QueryTable(c.attrs, server, table_name.v, "*", NoFilters, 5, FALSE)

ClaudeReturn(c, call) == Run(c, <<call>>, <<Envelope(call)>>, 0, "none")

\* get_supabase_info(command, table_name) with the client c, and main printing
\* what it returns
GetSupabaseInfo(c, command, table_name) ==
    IF c.exc # "none"
    THEN Run(c, <<>>, <<Item("error_envelope", c.exc)>>, 0, "none")
    ELSE IF \/ command = "list_tables"
            \/ command \in {"table_schema", "query"} /\ Truthy(table_name)
    THEN ClaudeReturn(c, ClaudeCommand(c, command, table_name))
    ELSE Run(c, <<>>, <<Item("error_envelope", "Invalid command or missing table name")>>,
             0, "none")

ClaudeMain ==
    /\ pc = "start"
    /\ \/ \E f \in ConfigFiles, command \in Commands, table_name \in {None, Str(<<"a">>)} :
             \E run \in {GetSupabaseInfo(Construct(FromFile(f)), command, table_name)} :
             /\ ctor' = run.ctor
             /\ client' = run.ctor.attrs
             /\ calls' = run.calls
             /\ out' = run.out
       \/ \* len(sys.argv) < 2
          /\ out' = Out(<<Item("text", "Usage"), Item("text", "Commands")>>, 1, "none")
          /\ UNCHANGED <<ctor, client, calls>>
    /\ front' = "claude"
    /\ pc' = "done"
    /\ UNCHANGED server

-----------------------------------------------------------------------------
\* list_tables_example.py

\* print(json.dumps(...)) in the try block, or print(f"Error ...: {e}") in its handler
PrintCaught(call) ==
    IF call.result.kind = "return"
    THEN <<Item("text", call.op), Item("json", call.result.value)>>
    ELSE <<Item("text", call.op), Item("error_text", call.result.exc)>>

Heading == <<Item("text", "Listing all tables in the database:")>>

\* lines 15-32: both try statements, for the first table listed
ListExampleSample(c, listed, schema, query) ==
    Run(c, <<listed, schema, query>>,
        Heading \o <<Item("json", listed.result.value)>> \o PrintCaught(schema)
            \o PrintCaught(query),
        0, "none")

\* lines 9-32, with what list_tables did
ListExampleListed(c, listed) ==
    IF listed.result.kind = "raise"
    THEN Run(c, <<listed>>, Heading, 1, listed.result.exc)
    ELSE IF listed.result.value = <<>>
    THEN Run(c, <<listed>>, Heading \o <<Item("json", listed.result.value)>>, 0, "none")
    ELSE ListExampleSample(c, listed,
            GetTableSchema(c.attrs, server, listed.result.value[1], TRUE),
            QueryTable(c.attrs, server, listed.result.value[1], "*", NoFilters, 5, FALSE))

\* main, with what the constructor did
ListExampleRun(c) ==
    IF c.exc # "none"
    THEN Run(c, <<>>, <<>>, 1, c.exc)
    ELSE ListExampleListed(c, ListTables(c.attrs, server, TRUE))

ListExampleMain ==
    /\ pc = "start"
    /\ \E f \in ConfigFiles :
          \E run \in {ListExampleRun(Construct(FromFile(f)))} :
          /\ ctor' = run.ctor
          /\ client' = run.ctor.attrs
          /\ calls' = run.calls
          /\ out' = run.out
          /\ pc' = IF run.out.uncaught = "none" THEN "done" ELSE "crashed"
    /\ front' = "list_example"
    /\ UNCHANGED server

-----------------------------------------------------------------------------
\* The programs, against an API that answers in any of the sampled ways.

Init ==
    /\ server \in Servers
    /\ front = "none"
    /\ pc = "start"
    /\ ctor = NotConstructed
    /\ client = NoAttrs
    /\ calls = <<>>
    /\ out = NoOut

Next ==
    \/ LibConstruct
    \/ LibListTables
    \/ LibGetTableSchema
    \/ LibQueryTable
    \/ UtilsMain
    \/ ClaudeMain
    \/ ListExampleMain

Spec == Init /\ [][Next]_vars

-----------------------------------------------------------------------------
\* list_tables alone, on every response text of up to MaxText chunks.

SampleClient == Construct(Direct(Str(TypedUrl), Str(<<"anon">>), Str(<<"service">>)))

InitTables ==
    /\ server \in {Server(200, text, 200, Unset, <<"[", "]">>) :
                      text \in SeqsUpTo(TextChunks, MaxText)}
    /\ front = "library"
    /\ pc = "ready"
    /\ ctor = SampleClient
    /\ client = SampleClient.attrs
    /\ calls = <<>>
    /\ out = NoOut

NextTables == LibListTables

SpecTables == InitTables /\ [][NextTables]_vars

\* get_table_schema alone, on every Content-Range header of up to MaxHeader characters.

InitRange ==
    /\ server \in {Server(200, <<>>, 200, range, <<"[", "]">>) :
                      range \in {Unset} \cup {Str(h) : h \in SeqsUpTo(HeaderChars, MaxHeader)}}
    /\ front = "library"
    /\ pc = "ready"
    /\ ctor = SampleClient
    /\ client = SampleClient.attrs
    /\ calls = <<>>
    /\ out = NoOut

NextRange == LibGetTableSchema

SpecRange == InitRange /\ [][NextRange]_vars

-----------------------------------------------------------------------------
\* The claims.

CallsMade == {calls[i] : i \in DOMAIN calls}
Sent(call) == {call.result.sent[i] : i \in DOMAIN call.result.sent}
Constructed == ctor.args.source # "none"

\* the status of the response to a request: the API answers per endpoint
StatusOf(req) == IF req.url = RootUrl(client) THEN server.root_status ELSE server.table_status

\* C1: whenever the response to any request of an operation has a status other
\* than 200, the operation raises the request error with that status in its
\* message, and returns nothing.
C1_Non200Raises ==
    \A call \in CallsMade : \A req \in Sent(call) :
        StatusOf(req) # 200 =>
            /\ call.result.kind = "raise"
            /\ call.result.exc = "Exception"
            /\ call.result.message.status = StatusOf(req)

\* C2: every call of an operation sends exactly one request.
C2_OneRequestPerCall ==
    \A call \in CallsMade : Len(call.result.sent) = 1

\* a config file that yields a URL and a key under one of the two shapes
Usable(f) ==
    \/ f.kind = "flat" /\ Truthy(f.url) /\ (Truthy(f.anon) \/ Truthy(f.service))
    \/ f.kind = "mcp" /\ Truthy(ProjectRefLoop(f.args, 1, None)) /\ Truthy(f.token)

\* C3: construction from a config file that is missing, is not valid JSON or
\* yields no usable URL/key pair fails with ValueError and with nothing else.
C3_BadConfigIsValueError ==
    (Constructed /\ ctor.args.source = "config" /\ ~Usable(ctor.args.file))
        => ctor.exc = "ValueError"

\* C4: construction from direct credentials or from a flat config succeeds if
\* and only if the URL is non-empty and one of the two keys is non-empty, and
\* fails with ValueError otherwise.
C4_ConstructIffCredentials ==
    (Constructed /\ ctor.args.file.kind \in {"none", "flat"}) =>
        IF /\ Truthy(ctor.args.file.url)
           /\ Truthy(ctor.args.file.anon) \/ Truthy(ctor.args.file.service)
        THEN ctor.exc = "none" /\ Truthy(client.url)
        ELSE ctor.exc = "ValueError" /\ client = NoAttrs

\* C4's case: a flat config with a URL and the anon key only, and a client built from it
C4_Witness ==
    /\ ctor.args.source = "config"
    /\ ctor.args.file.kind = "flat"
    /\ Truthy(ctor.args.file.url)
    /\ Truthy(ctor.args.file.anon)
    /\ ctor.args.file.service = None
    /\ ctor.exc = "none"
    /\ client.anon_key = ctor.args.file.anon

\* C5: no exception leaves any of the three front-ends: each one is printed or
\* returned as an error envelope.
C5_NoUncaughtError ==
    front \in {"utils_main", "claude", "list_example"} =>
        out.uncaught = "none" /\ pc # "crashed"

QueryCalls == {call \in CallsMade : call.op = "query_table"}
FilterKeys(call) == IF call.args.filters.t = "dict" THEN DOMAIN call.args.filters.d ELSE {}

\* query_table returns the decoded body when the API answers 200 with a JSON array
ReturnsBody(call) ==
    (server.table_status = 200 /\ IsJsonArray(server.body)) =>
        call.result.kind = "return" /\ call.result.value = JsonArray(server.body)

\* C6 as claimed: the one request of query_table carries limit and select equal to
\* the arguments, whatever the filters are, and every filter unmodified; a 200
\* response gives back the decoded body.
C6_ArgumentsAlwaysSent ==
    \A call \in QueryCalls :
        /\ Len(call.result.sent) = 1
        /\ call.result.sent[1].params["limit"] = call.args.limit
        /\ call.result.sent[1].params["select"] = call.args.select
        /\ \A k \in FilterKeys(call) : call.result.sent[1].params[k] = call.args.filters.d[k]
        /\ ReturnsBody(call)

\* C6 as amended: the one request of query_table carries every filter unmodified,
\* and limit and select equal to the arguments unless the filters hold that key
\* themselves, and nothing else; a 200 response gives back the decoded body.
C6_FiltersOverrideArguments ==
    \A call \in QueryCalls :
        /\ Len(call.result.sent) = 1
        /\ DOMAIN call.result.sent[1].params = {"select", "limit"} \cup FilterKeys(call)
        /\ "limit" \notin FilterKeys(call) =>
              call.result.sent[1].params["limit"] = call.args.limit
        /\ "select" \notin FilterKeys(call) =>
              call.result.sent[1].params["select"] = call.args.select
        /\ \A k \in FilterKeys(call) : call.result.sent[1].params[k] = call.args.filters.d[k]
        /\ ReturnsBody(call)

\* C6's case: a query with limit 5 and a filter named limit, answered 200
C6_Witness ==
    \E call \in QueryCalls :
        /\ call.args.limit = 5
        /\ "limit" \in FilterKeys(call)
        /\ call.result.sent[1].params["limit"] = 9
        /\ call.result.kind = "return"
        /\ Len(call.result.value) = 2

SchemaCalls == {call \in CallsMade : call.op = "get_table_schema"}
HeaderText == IF server.range = Unset THEN <<>> ELSE server.range.v
Slashes(h) == Cardinality({i \in 1..Len(h) : h[i] = "/"})

\* C7: total_rows is the integer after the '/' of the header when that part is
\* numeric, and 0 for every other header, one with more than one '/' included.
C7_TotalRows ==
    \A call \in SchemaCalls :
        call.result.kind = "return" =>
            call.result.value.total_rows =
                IF Slashes(HeaderText) = 1 /\ IsInt(After(HeaderText, "/"))
                THEN IntOf(After(HeaderText, "/"))
                ELSE 0

ListCalls == {call \in CallsMade : call.op = "list_tables"}

\* the names N that occur in the text as "tags":["N"]
TaggedNames(text) ==
    {SubSeq(text, i + 1, j - 1) : <<i, j>> \in
        {p \in (1..Len(text)) \X (1..Len(text)) :
            /\ text[p[1]] = TagOpen
            /\ text[p[2]] = TagClose
            /\ p[2] > p[1] + 1
            /\ \A k \in (p[1] + 1)..(p[2] - 1) : text[k] \in NameChunks}}

\* C8: on a 200 response list_tables returns, in ascending order and without
\* duplicates, exactly the tagged names of the text that are not Introspection
\* and do not start with (rpc).
C8_SortedTableNames ==
    \A call \in ListCalls :
        server.root_status = 200 =>
            /\ call.result.kind = "return"
            /\ \A i, j \in DOMAIN call.result.value :
                  i < j => StrLess(call.result.value[i], call.result.value[j])
            /\ {call.result.value[i] : i \in DOMAIN call.result.value} =
                  {n \in TaggedNames(server.text) :
                      n # <<"Introspection">> /\ n[1] # "(rpc)"}

\* C8's case: a text that tags b and then a gives <<a, b>>
C8_Witness ==
    \E call \in ListCalls :
        /\ server.text = <<TagOpen, "b", TagClose, TagOpen, "a", TagClose>>
        /\ call.result.value = << <<"a">>, <<"b">> >>

\* C9: the two headers of every request carry the same key: the service-role
\* key when use_service_role is true and that key is configured, else the anon key.
C9_KeySelection ==
    \A call \in CallsMade : \A req \in Sent(call) :
        /\ req.headers.Authorization = <<"Bearer ">> \o Format(req.headers.apikey)
        /\ req.headers.apikey =
              IF call.args.use_service_role /\ Truthy(client.service_role_key)
              THEN client.service_role_key
              ELSE client.anon_key

\* C9's case: a client with both keys, one operation asked to use the anon key
C9_Witness ==
    \E call \in CallsMade :
        /\ ~call.args.use_service_role
        /\ Truthy(client.service_role_key)
        /\ Truthy(client.anon_key)
        /\ call.result.sent[1].headers.apikey = client.anon_key

\* C10: every request that is sent carries a configured, non-empty key.
C10_KeyNeverAbsent ==
    \A call \in CallsMade : \A req \in Sent(call) : Truthy(req.headers.apikey)

====
